---- MODULE Spec2Model ----
(***************************************************************************)
(* Model of repoze.sendmail's queue processor (queue.py): the per-message  *)
(* delivery protocol of QueueProcessor._send_message over a maildir shared *)
(* by several processes, the pass driver send_messages, and the message    *)
(* codec _parseMessage.                                                    *)
(*                                                                         *)
(* Files are names bound to inodes.  The '.sending-' lock and the          *)
(* '.rejected-' marker are hard links to the message file, so they share   *)
(* its inode, its content and its modification time.                       *)
(***************************************************************************)
EXTENDS Integers, Sequences, FiniteSets, TLC

VARIABLES
    cur,       \* message file name -> inode, or NoFile    (filename)
    sending,   \* lock name -> inode, or NoFile            (tmp_filename)
    rejected,  \* quarantine name -> inode, or NoFile      (rejected_filename)
    mtime,     \* inode -> modification time
    now,       \* wall clock, time.time()
    ticks,     \* number of clock advances so far
    wk,        \* per process: position in send_messages/_send_message, locals
    stopped,   \* per process: QueueProcessor.__stopped
    calls,     \* per message: number of mailer.send invocations
    passes,    \* per process: number of send_messages passes started
    codec,     \* a message being written by an enqueuer and parsed back
    answers    \* per message: what mailer.send has answered so far

vars == <<cur, sending, rejected, mtime, now, ticks, wk, stopped, calls, passes,
          codec, answers>>

-----------------------------------------------------------------------------
(* Bounds of the model *)

MaxPasses == 3
MaxPassesEach == 1
MaxPassesFew == 2
MaxTicks == 2
MaxRounds == 2
MaxAddrs == 2

(* Program constant *)
MAX_SEND_TIME == 10800

Workers == {"w1", "w2"}
Msgs == {"m1", "m2"}

NoFile == "NoFile"
NoMsg == "NoMsg"
None == "None"
(* `age = None` of line 168: no lock was found (ages are never negative) *)
NoAge == -1
(* mailer.send was not called *)
NoCall == <<>>
(* no interval argument given; no time.sleep call made yet *)
NotPassed == -1
(* the default of the interval parameter, lines 100 and 112 *)
DefaultInterval == 3

-----------------------------------------------------------------------------
(* Strings are sequences of one-character strings. *)

NL == "\n"
FromMarker == <<"X", "-", "Z", "o", "p", "e", "-", "F", "r", "o", "m", ":", " ">>
ToMarker == <<"X", "-", "Z", "o", "p", "e", "-", "T", "o", ":", " ">>
CommaSpace == <<",", " ">>

(* What the enqueuer wrote into each message file (the inode's content). *)
Content(i) ==
    IF i = "m1"
    THEN FromMarker \o <<"a", NL>> \o ToMarker \o <<"b", ",", " ", "c", NL, "h", "i">>
    ELSE <<"h", "e", "l", "l", "o">>

StartsWith(s, p) == Len(s) >= Len(p) /\ SubSeq(s, 1, Len(p)) = p

(* str.find: index of the first occurrence of sep in s at or after i, else 0 *)
RECURSIVE Find(_, _, _)
Find(s, sep, i) ==
    IF i + Len(sep) - 1 > Len(s) THEN 0
    ELSE IF SubSeq(s, i, i + Len(sep) - 1) = sep THEN i
    ELSE Find(s, sep, i + 1)

(* str.split(sep, maxsplit); maxsplit = -1 is no limit *)
RECURSIVE Split(_, _, _)
Split(s, sep, maxsplit) ==
    LET i == Find(s, sep, 1)
    IN  IF maxsplit = 0 \/ i = 0 THEN <<s>>
        ELSE <<SubSeq(s, 1, i - 1)>>
             \o Split(SubSeq(s, i + Len(sep), Len(s)), sep, maxsplit - 1)

(* sep.join(parts) *)
RECURSIVE Join(_, _)
Join(parts, sep) ==
    IF parts = <<>> THEN <<>>
    ELSE IF Len(parts) = 1 THEN parts[1]
    ELSE parts[1] \o sep \o Join(Tail(parts), sep)

(* _parseMessage without the limit of two splits *)
parseMessageSplitsAllLines(message) ==
    LET parts == Split(message, <<NL>>, -1)
    IN  IF Len(parts) # 3
        THEN [fromaddr |-> <<>>, toaddrs |-> <<>>, rest |-> message]
        ELSE LET first == parts[1]
                 second == parts[2]
             IN  [fromaddr |-> IF StartsWith(first, FromMarker)
                               THEN SubSeq(first, Len(FromMarker) + 1, Len(first))
                               ELSE <<>>,
                  toaddrs |-> IF StartsWith(second, ToMarker)
                              THEN Split(SubSeq(second, Len(ToMarker) + 1, Len(second)),
                                         CommaSpace, -1)
                              ELSE <<>>,
                  rest |-> parts[3]]

(* _parseMessage splitting the recipients on "," instead of ", " *)
parseMessageSplitsOnComma(message) ==
    LET parts == Split(message, <<NL>>, 2)
    IN  IF Len(parts) # 3
        THEN [fromaddr |-> <<>>, toaddrs |-> <<>>, rest |-> message]
        ELSE LET first == parts[1]
                 second == parts[2]
             IN  [fromaddr |-> IF StartsWith(first, FromMarker)
                               THEN SubSeq(first, Len(FromMarker) + 1, Len(first))
                               ELSE <<>>,
                  toaddrs |-> IF StartsWith(second, ToMarker)
                              THEN Split(SubSeq(second, Len(ToMarker) + 1, Len(second)),
                                         <<",">>, -1)
                              ELSE <<>>,
                  rest |-> parts[3]]

(* QueueProcessor._parseMessage *)
parseMessage(message) ==
    LET parts == Split(message, <<NL>>, 2)
    IN  IF Len(parts) # 3
        THEN [fromaddr |-> <<>>, toaddrs |-> <<>>, rest |-> message]
        ELSE LET first == parts[1]
                 second == parts[2]
             IN  [fromaddr |-> IF StartsWith(first, FromMarker)
                               THEN SubSeq(first, Len(FromMarker) + 1, Len(first))
                               ELSE <<>>,
                  toaddrs |-> IF StartsWith(second, ToMarker)
                              THEN Split(SubSeq(second, Len(ToMarker) + 1, Len(second)),
                                         CommaSpace, -1)
                              ELSE <<>>,
                  rest |-> parts[3]]

(* what lines 246-248 make of each message file *)
Parsed == [i \in Msgs |-> parseMessage(Content(i))]

-----------------------------------------------------------------------------
(* Outcomes of the environment *)

(* An OSError/IOError other than the one the step names (EACCES, EIO, ...) *)
IOErrors == {"EOTHER"}
NoErrors == {}

(* mailer.send: returns, raises SMTPResponseException(smtp_code), or raises *)
(* something else (a socket error, SMTPServerDisconnected, ...)             *)
SmtpCodes == {499, 500, 599, 600}

(* str(n) of a non-negative integer *)
Digit(d) == <<"0", "1", "2", "3", "4", "5", "6", "7", "8", "9">>[d + 1]
RECURSIVE Decimal(_)
Decimal(n) == IF n < 10 THEN <<Digit(n)>> ELSE Decimal(n \div 10) \o <<Digit(n % 10)>>

(* SMTPResponseException(smtp_code, smtp_error); the server's text for a *)
(* code is "answer " and the code                                        *)
SmtpAnswer(c) ==
    [type |-> "smtp", code |-> c,
     error |-> <<"a", "n", "s", "w", "e", "r", " ">> \o Decimal(c)]
Returns == [type |-> "ok", code |-> 0, error |-> <<>>]
RaisesOther == [type |-> "other", code |-> 0, error |-> <<>>]

MailerOutcomes == {Returns, RaisesOther} \cup {SmtpAnswer(c) : c \in SmtpCodes}
NoOutcome == [type |-> "none", code |-> 0, error |-> <<>>]

(* str(e) of an SMTPResponseException: its args (smtp_code, smtp_error) *)
(* printed as a tuple, the text in quotes                               *)
StrOfException(e) ==
    <<"(">> \o Decimal(e.code) \o <<",", " ", "'">> \o e.error \o <<"'", ")">>

(* the test of line 252 without its lower limit *)
IsPermanentNoLowerLimit(e) == e.type = "smtp" /\ e.code <= 599

(* the test of line 252 without its upper limit *)
IsPermanentNoUpperLimit(e) == e.type = "smtp" /\ 500 <= e.code

IsPermanent(e) == e.type = "smtp" /\ 500 <= e.code /\ e.code <= 599

-----------------------------------------------------------------------------
(* Log records *)

InfoSent(s) ==
    [level |-> "info", fmt |-> "Mail from %s to %s sent.",
     args |-> <<s.fromaddr, Join(s.toaddrs, CommaSpace)>>]

ErrorDiscarding(s) ==
    [level |-> "error",
     fmt |-> "Discarding email from %s to %s due to a permanent error: %s",
     args |-> <<s.fromaddr, Join(s.toaddrs, CommaSpace), StrOfException(s.exc)>>]

ErrorWhileSending(s) ==
    IF s.fromaddr # <<>> \/ s.toaddrs # <<>>
    THEN [level |-> "error", fmt |-> "Error while sending mail from %s to %s.",
          args |-> <<s.fromaddr, Join(s.toaddrs, CommaSpace)>>]
    ELSE [level |-> "error", fmt |-> "Error while sending mail : %s ",
          args |-> <<<<s.file>>>>]

-----------------------------------------------------------------------------
(* Per-process state *)

(* A freshly constructed QueueProcessor, not yet inside send_messages.   *)
(* daemon is the position in send_messages_daemon ("off" when it is not  *)
(* running), asked the interval its caller passed, interval the value of *)
(* its own parameter, slept the argument of its last time.sleep call.    *)
NewWorker ==
    [pc |-> "idle", todo |-> <<>>, file |-> NoMsg, age |-> NoAge,
     fromaddr |-> <<>>, toaddrs |-> <<>>, message |-> <<>>,
     log |-> <<>>, exc |-> NoOutcome, sent |-> NoCall,
     acquired |-> FALSE, muts |-> {}, errno |-> None,
     marker0 |-> FALSE, prev |-> NoOutcome,
     daemon |-> "off", asked |-> NotPassed, interval |-> NotPassed,
     slept |-> NotPassed]

(* _send_message(filename) entered: lines 154-158.  The locals start    *)
(* empty; log, exc, sent, acquired and muts record what this attempt    *)
(* does, errno the error of its last failed system call, marker0        *)
(* whether the quarantine marker was there when it began,               *)
(* prev how the transport answered this process's previous attempt on   *)
(* the same file.                                                       *)
Enter(s, filename, marker) ==
    [s EXCEPT !.pc = "stat", !.todo = Tail(@), !.file = filename, !.age = NoAge,
              !.fromaddr = <<>>, !.toaddrs = <<>>, !.message = <<>>,
              !.log = <<>>, !.exc = NoOutcome, !.sent = NoCall,
              !.acquired = FALSE, !.muts = {}, !.errno = None,
              !.marker0 = marker,
              !.prev = IF s.file = filename THEN s.exc ELSE NoOutcome]

(* a `return` inside the try block: back in the loop of send_messages *)
Return(s) == [s EXCEPT !.pc = "loop"]

(* an except clause that logs and raises again: the exception leaves *)
(* _send_message and send_messages, whose loop is abandoned          *)
CatchAllRaisesAgain(s) ==
    [s EXCEPT !.log = Append(@, ErrorWhileSending(s)), !.pc = "idle"]

(* the bare `except:` of _send_message: log one error record, swallow *)
CatchAll(s) == [s EXCEPT !.log = Append(@, ErrorWhileSending(s)), !.pc = "loop"]

Goto(s, label) == [s EXCEPT !.pc = label]

Mutated(s, what) == [s EXCEPT !.muts = @ \cup {what}]

(* the answer r of a system call, kept when it is an error *)
Answered(s, r) == IF r = "OK" THEN s ELSE [s EXCEPT !.errno = r]

InAttempt(s) ==
    s.pc \in {"stat", "unlink_stale", "touch", "link", "read", "send",
              "quarantine", "unlink_msg", "unlink_tmp"}

(* past a successful lock link and before the end of the attempt *)
HoldsLock(s) ==
    s.pc \in {"read", "send", "quarantine", "unlink_msg", "unlink_tmp"}

-----------------------------------------------------------------------------
(* The queue holds the messages of `queued`, each in its own inode, with *)
(* no lock and no quarantine marker; no process has started a pass.      *)
InitQueue(queued) ==
    /\ cur = [m \in Msgs |-> IF m \in queued THEN m ELSE NoFile]
    /\ sending = [m \in Msgs |-> NoFile]
    /\ rejected = [m \in Msgs |-> NoFile]
    /\ mtime = [m \in Msgs |-> 0]
    /\ now = 0
    /\ ticks = 0
    /\ wk = [w \in Workers |-> NewWorker]
    /\ stopped = [w \in Workers |-> FALSE]
    /\ calls = [m \in Msgs |-> 0]
    /\ passes = [w \in Workers |-> 0]
    /\ answers = [m \in Msgs |-> {}]

(* no message is being written *)
NoCodec == [stage |-> "none", fromaddr |-> <<>>, toaddrs |-> <<>>, body |-> <<>>,
            wire |-> <<>>, parsed |-> [fromaddr |-> <<>>, toaddrs |-> <<>>, rest |-> <<>>]]

Init == InitQueue({"m1"}) /\ codec = NoCodec
InitBoth == InitQueue(Msgs) /\ codec = NoCodec

-----------------------------------------------------------------------------
(* The file system calls of _send_message: what each can answer *)

(* os.stat / os.unlink / os.utime / open on a name *)
NameOutcomes(f, faults) == (IF f = NoFile THEN {"ENOENT"} ELSE {"OK"}) \cup faults

(* a link that replaces an existing name instead of failing *)
LinkOutcomesNotExclusive(src, dst, faults) ==
    (IF src = NoFile THEN {"ENOENT"} ELSE {"OK"}) \cup faults

(* os.link(src, dst): the source is looked up first, then the new name made *)
LinkOutcomes(src, dst, faults) ==
    (IF src = NoFile THEN {"ENOENT"}
     ELSE IF dst # NoFile THEN {"EEXIST"}
     ELSE {"OK"}) \cup faults

(* the comparison of line 184 turned round *)
IsStaleTurnedRound(age) == age < MAX_SEND_TIME

(* line 184 with the threshold itself counted as too old *)
IsStaleAtThreshold(age) == age >= MAX_SEND_TIME

(* line 184 *)
IsStale(age) == age > MAX_SEND_TIME

-----------------------------------------------------------------------------
(* _send_message, one action per system call *)

(* lines 166-193: stat the lock, compute its age, decide *)
Stat(w, faults) ==
    LET s == wk[w]
        m == s.file
    IN  /\ s.pc = "stat"
        /\ \E r \in NameOutcomes(sending[m], faults) :
              LET u == Answered(s, r) IN
              wk' = [wk EXCEPT ![w] =
                  CASE r = "ENOENT" -> Goto(u, "touch")
                    [] r = "OK" ->
                         LET age == now - mtime[sending[m]]
                         IN  IF IsStale(age)
                             THEN Goto([u EXCEPT !.age = age], "unlink_stale")
                             ELSE Return([u EXCEPT !.age = age])
                    [] OTHER -> CatchAll(u)]
        /\ UNCHANGED <<codec, answers, cur, sending, rejected, mtime, now, ticks, stopped, calls, passes>>

(* lines 189-201: unlink the lock found too old; an OSError other than *)
(* ENOENT is caught by the handler of line 196 and not raised again     *)
UnlinkStale(w, faults) ==
    LET s == wk[w]
        m == s.file
    IN  /\ s.pc = "unlink_stale"
        /\ \E r \in NameOutcomes(sending[m], faults) :
              LET u == Answered(s, r) IN
              /\ wk' = [wk EXCEPT ![w] =
                    CASE r = "OK" -> Goto(Mutated(u, "unlink_stale"), "touch")
                      [] r = "ENOENT" -> Return(u)
                      [] OTHER -> Goto(u, "touch")]
              /\ sending' = IF r = "OK" THEN [sending EXCEPT ![m] = NoFile] ELSE sending
        /\ UNCHANGED <<codec, answers, cur, rejected, mtime, now, ticks, stopped, calls, passes>>

(* lines 208-219: os.utime(filename, None) *)
Touch(w, faults) ==
    LET s == wk[w]
        m == s.file
    IN  /\ s.pc = "touch"
        /\ \E r \in NameOutcomes(cur[m], faults) :
              LET u == Answered(s, r) IN
              /\ wk' = [wk EXCEPT ![w] =
                    CASE r = "OK" -> Goto(Mutated(u, "touch"), "link")
                      [] r = "ENOENT" -> Return(u)
                      [] OTHER -> CatchAll(u)]
              /\ mtime' = IF r = "OK" THEN [mtime EXCEPT ![cur[m]] = now] ELSE mtime
        /\ UNCHANGED <<codec, answers, cur, sending, rejected, now, ticks, stopped, calls, passes>>

(* the lock link without the `return` of line 229: on EEXIST the attempt *)
(* goes on to read and send                                              *)
LinkFallsThrough(w, faults) ==
    LET s == wk[w]
        m == s.file
    IN  /\ s.pc = "link"
        /\ \E r \in LinkOutcomes(cur[m], sending[m], faults) :
              LET u == Answered(s, r) IN
              /\ wk' = [wk EXCEPT ![w] =
                    CASE r = "OK" ->
                           Goto([Mutated(u, "link") EXCEPT !.acquired = TRUE], "read")
                      [] r = "EEXIST" -> Goto(u, "read")
                      [] OTHER -> CatchAll(u)]
              /\ sending' = IF r = "OK" THEN [sending EXCEPT ![m] = cur[m]] ELSE sending
        /\ UNCHANGED <<codec, answers, cur, rejected, mtime, now, ticks, stopped, calls, passes>>

(* lines 223-233: _os_link(filename, tmp_filename) *)
Link(w, faults) ==
    LET s == wk[w]
        m == s.file
    IN  /\ s.pc = "link"
        /\ \E r \in LinkOutcomes(cur[m], sending[m], faults) :
              LET u == Answered(s, r) IN
              /\ wk' = [wk EXCEPT ![w] =
                    CASE r = "OK" ->
                           Goto([Mutated(u, "link") EXCEPT !.acquired = TRUE], "read")
                      [] r = "EEXIST" -> Return(u)
                      [] OTHER -> CatchAll(u)]
              /\ sending' = IF r = "OK" THEN [sending EXCEPT ![m] = cur[m]] ELSE sending
        /\ UNCHANGED <<codec, answers, cur, rejected, mtime, now, ticks, stopped, calls, passes>>

(* lines 245-248: open, read, close, _parseMessage *)
Read(w, faults) ==
    LET s == wk[w]
        m == s.file
    IN  /\ s.pc = "read"
        /\ \E r \in NameOutcomes(cur[m], faults) :
              LET u == Answered(s, r) IN
              wk' = [wk EXCEPT ![w] =
                  IF r = "OK"
                  THEN LET p == Parsed[cur[m]]
                       IN  Goto([u EXCEPT !.fromaddr = p.fromaddr,
                                          !.toaddrs = p.toaddrs,
                                          !.message = p.rest], "send")
                  ELSE CatchAll(u)]
        /\ UNCHANGED <<codec, answers, cur, sending, rejected, mtime, now, ticks, stopped, calls, passes>>

(* a send that removes the lock when the transport fails for a while *)
SendReleasesLock(w, outcomes) ==
    LET s == wk[w]
        m == s.file
    IN  /\ s.pc = "send"
        /\ \E e \in outcomes :
              LET t == [s EXCEPT !.exc = e,
                                 !.sent = <<s.fromaddr, s.toaddrs, s.message>>]
              IN  /\ wk' = [wk EXCEPT ![w] =
                        IF e.type = "ok" THEN Goto(t, "unlink_msg")
                        ELSE IF IsPermanent(e)
                        THEN Goto([t EXCEPT !.log = Append(@, ErrorDiscarding(t))],
                                  "quarantine")
                        ELSE CatchAll(t)]
                  /\ sending' = IF e.type = "ok" \/ IsPermanent(e) THEN sending
                                 ELSE [sending EXCEPT ![m] = NoFile]
                  /\ answers' = [answers EXCEPT ![m] = @ \cup {e}]
        /\ calls' = [calls EXCEPT ![m] = @ + 1]
        /\ UNCHANGED <<codec, cur, rejected, mtime, now, ticks, stopped, passes>>

(* lines 249-261: mailer.send and the SMTPResponseException handler *)
Send(w, outcomes) ==
    LET s == wk[w]
        m == s.file
    IN  /\ s.pc = "send"
        /\ \E e \in outcomes :
              LET t == [s EXCEPT !.exc = e,
                                 !.sent = <<s.fromaddr, s.toaddrs, s.message>>]
              IN  /\ wk' = [wk EXCEPT ![w] =
                        IF e.type = "ok" THEN Goto(t, "unlink_msg")
                        ELSE IF IsPermanent(e)
                        THEN Goto([t EXCEPT !.log = Append(@, ErrorDiscarding(t))],
                                  "quarantine")
                        ELSE CatchAll(t)]
                  /\ answers' = [answers EXCEPT ![m] = @ \cup {e}]
        /\ calls' = [calls EXCEPT ![m] = @ + 1]
        /\ UNCHANGED <<codec, cur, sending, rejected, mtime, now, ticks, stopped, passes>>

(* a quarantine link whose failure is passed over: the unlinks follow *)
QuarantineIgnoresFailure(w, faults) ==
    LET s == wk[w]
        m == s.file
    IN  /\ s.pc = "quarantine"
        /\ \E r \in LinkOutcomes(cur[m], rejected[m], faults) :
              LET u == Answered(s, r) IN
              /\ wk' = [wk EXCEPT ![w] =
                    IF r = "OK" THEN Goto(Mutated(u, "link_rejected"), "unlink_msg")
                    ELSE Goto(u, "unlink_msg")]
              /\ rejected' = IF r = "OK" THEN [rejected EXCEPT ![m] = cur[m]]
                             ELSE rejected
        /\ UNCHANGED <<codec, answers, cur, sending, mtime, now, ticks, stopped, calls, passes>>

(* line 258: _os_link(filename, rejected_filename), inside the handler *)
Quarantine(w, faults) ==
    LET s == wk[w]
        m == s.file
    IN  /\ s.pc = "quarantine"
        /\ \E r \in LinkOutcomes(cur[m], rejected[m], faults) :
              LET u == Answered(s, r) IN
              /\ wk' = [wk EXCEPT ![w] =
                    IF r = "OK" THEN Goto(Mutated(u, "link_rejected"), "unlink_msg")
                    ELSE CatchAll(u)]
              /\ rejected' = IF r = "OK" THEN [rejected EXCEPT ![m] = cur[m]]
                             ELSE rejected
        /\ UNCHANGED <<codec, answers, cur, sending, mtime, now, ticks, stopped, calls, passes>>

(* the message unlink with ENOENT raised like any other error *)
UnlinkMsgRaisesENOENT(w, faults) ==
    LET s == wk[w]
        m == s.file
    IN  /\ s.pc = "unlink_msg"
        /\ \E r \in NameOutcomes(cur[m], faults) :
              LET u == Answered(s, r) IN
              /\ wk' = [wk EXCEPT ![w] =
                    CASE r = "OK" -> Goto(Mutated(u, "unlink_msg"), "unlink_tmp")
                      [] OTHER -> CatchAll(u)]
              /\ cur' = IF r = "OK" THEN [cur EXCEPT ![m] = NoFile] ELSE cur
        /\ UNCHANGED <<codec, answers, sending, rejected, mtime, now, ticks, stopped, calls, passes>>

(* lines 263-271: os.unlink(filename) *)
UnlinkMsg(w, faults) ==
    LET s == wk[w]
        m == s.file
    IN  /\ s.pc = "unlink_msg"
        /\ \E r \in NameOutcomes(cur[m], faults) :
              LET u == Answered(s, r) IN
              /\ wk' = [wk EXCEPT ![w] =
                    CASE r = "OK" -> Goto(Mutated(u, "unlink_msg"), "unlink_tmp")
                      [] r = "ENOENT" -> Goto(u, "unlink_tmp")
                      [] OTHER -> CatchAll(u)]
              /\ cur' = IF r = "OK" THEN [cur EXCEPT ![m] = NoFile] ELSE cur
        /\ UNCHANGED <<codec, answers, sending, rejected, mtime, now, ticks, stopped, calls, passes>>

(* lines 273-285: os.unlink(tmp_filename), then the info record *)
UnlinkTmp(w, faults) ==
    LET s == wk[w]
        m == s.file
    IN  /\ s.pc = "unlink_tmp"
        /\ \E r \in NameOutcomes(sending[m], faults) :
              LET u == Answered(s, r)
                  sent == [u EXCEPT !.log = Append(@, InfoSent(u))]
              IN
              /\ wk' = [wk EXCEPT ![w] =
                    CASE r = "OK" -> Return(Mutated(sent, "unlink_tmp"))
                      [] r = "ENOENT" -> Return(sent)
                      [] OTHER -> CatchAll(u)]
              /\ sending' = IF r = "OK" THEN [sending EXCEPT ![m] = NoFile] ELSE sending
        /\ UNCHANGED <<codec, answers, cur, rejected, mtime, now, ticks, stopped, calls, passes>>

-----------------------------------------------------------------------------
(* The queue store and the driver *)

(* Maildir.__iter__: the names of the message files present when the     *)
(* iteration starts, dot files left out, in the directory's order        *)
Pending == {m \in Msgs : cur[m] # NoFile}
Orderings(S) ==
    {q \in [1..Cardinality(S) -> S] : \A i, j \in 1..Cardinality(S) : q[i] = q[j] => i = j}

(* send_messages called: line 120, iter(self.maildir) *)
StartPass(w, maxPasses) ==
    /\ wk[w].pc = "idle"
    /\ passes[w] < maxPasses
    /\ \E q \in Orderings(Pending) :
          wk' = [wk EXCEPT ![w] = [@ EXCEPT !.pc = "loop", !.todo = q]]
    /\ passes' = [passes EXCEPT ![w] = @ + 1]
    /\ UNCHANGED <<codec, answers, cur, sending, rejected, mtime, now, ticks, stopped, calls>>

(* lines 120-124: next id, the stop test, the call of _send_message *)
Loop(w) ==
    LET s == wk[w]
    IN  /\ s.pc = "loop"
        /\ wk' = [wk EXCEPT ![w] =
              IF s.todo = <<>> THEN Goto(s, "idle")
              ELSE IF stopped[w] THEN Goto(s, "idle")
              ELSE Enter(s, Head(s.todo), rejected[Head(s.todo)] # NoFile)]
        /\ UNCHANGED <<codec, answers, cur, sending, rejected, mtime, now, ticks, stopped, calls, passes>>

(* QueueProcessor.stop *)
Stop(w) ==
    /\ wk[w].pc # "dead"
    /\ stopped' = [stopped EXCEPT ![w] = TRUE]
    /\ UNCHANGED <<codec, answers, cur, sending, rejected, mtime, now, ticks, wk, calls, passes>>

(* the process is killed; its files stay as they are *)
Crash(w) ==
    /\ wk[w].pc # "dead"
    /\ wk' = [wk EXCEPT ![w] =
          [NewWorker EXCEPT !.pc = "dead", !.file = wk[w].file,
                            !.acquired = HoldsLock(wk[w])]]
    /\ UNCHANGED <<codec, answers, cur, sending, rejected, mtime, now, ticks, stopped, calls, passes>>

(* a new process is started on the same queue: QueueProcessor.__init__ *)
Restart(w) ==
    /\ wk[w].pc = "dead"
    /\ wk' = [wk EXCEPT ![w] = NewWorker]
    /\ stopped' = [stopped EXCEPT ![w] = FALSE]
    /\ UNCHANGED <<codec, answers, cur, sending, rejected, mtime, now, ticks, calls, passes>>

(* time passes *)
Tick(deltas) ==
    /\ ticks < MaxTicks
    /\ \E d \in deltas : now' = now + d
    /\ ticks' = ticks + 1
    /\ UNCHANGED <<codec, answers, cur, sending, rejected, mtime, wk, stopped, calls, passes>>

-----------------------------------------------------------------------------
(* The run-forever entry points *)

Intervals == {5}

(* send_messages_daemon(interval) called directly: lines 112-113 *)
CallDaemon(w, intervals) ==
    LET s == wk[w]
    IN  /\ s.daemon = "off" /\ s.pc = "idle"
        /\ \E i \in intervals \cup {NotPassed} :
              wk' = [wk EXCEPT ![w] =
                  [s EXCEPT !.daemon = "while", !.asked = i,
                            !.interval = IF i = NotPassed THEN DefaultInterval ELSE i]]
        /\ UNCHANGED <<codec, answers, cur, sending, rejected, mtime, now, ticks, stopped, calls, passes>>

(* send_messages_thread(interval): lines 100-110; the thread's target is *)
(* send_messages_daemon with no argument, which so runs with its default *)
CallThread(w, intervals) ==
    LET s == wk[w]
    IN  /\ s.daemon = "off" /\ s.pc = "idle"
        /\ \E i \in intervals \cup {NotPassed} :
              wk' = [wk EXCEPT ![w] =
                  [s EXCEPT !.daemon = "while", !.asked = i,
                            !.interval = DefaultInterval]]
        /\ UNCHANGED <<codec, answers, cur, sending, rejected, mtime, now, ticks, stopped, calls, passes>>

(* a daemon loop that never looks at the flag before a pass *)
DaemonTestIgnoresStop(w, maxPasses) ==
    LET s == wk[w]
    IN  /\ s.daemon = "while" /\ s.pc = "idle"
        /\ passes[w] < maxPasses
        /\ \E q \in Orderings(Pending) :
              wk' = [wk EXCEPT ![w] =
                  [s EXCEPT !.daemon = "pass", !.pc = "loop", !.todo = q]]
        /\ passes' = [passes EXCEPT ![w] = @ + 1]
        /\ UNCHANGED <<codec, answers, cur, sending, rejected, mtime, now, ticks, stopped, calls>>

(* lines 114-115: `while not self.__stopped`, then send_messages() *)
DaemonTest(w, maxPasses) ==
    LET s == wk[w]
    IN  /\ s.daemon = "while" /\ s.pc = "idle"
        /\ stopped[w] \/ passes[w] < maxPasses
        /\ \E q \in Orderings(Pending) :
              wk' = [wk EXCEPT ![w] =
                  IF stopped[w] THEN [s EXCEPT !.daemon = "done"]
                  ELSE [s EXCEPT !.daemon = "pass", !.pc = "loop", !.todo = q]]
        /\ passes' = IF stopped[w] THEN passes ELSE [passes EXCEPT ![w] = @ + 1]
        /\ UNCHANGED <<codec, answers, cur, sending, rejected, mtime, now, ticks, stopped, calls>>

(* lines 116-117: send_messages has returned; sleep unless stopped *)
AfterPass(w) ==
    LET s == wk[w]
    IN  /\ s.daemon = "pass" /\ s.pc = "idle"
        /\ wk' = [wk EXCEPT ![w] =
              IF stopped[w] THEN [s EXCEPT !.daemon = "while"]
              ELSE [s EXCEPT !.daemon = "sleep", !.slept = s.interval]]
        /\ UNCHANGED <<codec, answers, cur, sending, rejected, mtime, now, ticks, stopped, calls, passes>>

(* line 117: time.sleep(interval) returns *)
Wake(w) ==
    LET s == wk[w]
    IN  /\ s.daemon = "sleep"
        /\ wk' = [wk EXCEPT ![w] = [s EXCEPT !.daemon = "while"]]
        /\ now' = now + s.slept
        /\ UNCHANGED <<codec, answers, cur, sending, rejected, mtime, ticks, stopped, calls, passes>>

-----------------------------------------------------------------------------
(* The steps of one attempt *)
Attempt(w, faults, outcomes) ==
    \/ Stat(w, faults)
    \/ UnlinkStale(w, faults)
    \/ Touch(w, faults)
    \/ Link(w, faults)
    \/ Read(w, faults)
    \/ Send(w, outcomes)
    \/ Quarantine(w, faults)
    \/ UnlinkMsg(w, faults)
    \/ UnlinkTmp(w, faults)

SomeOutcomes ==
    {Returns, RaisesOther, SmtpAnswer(599)}

(* Two processes race for one message; locks may grow old *)
Next ==
    \/ \E w \in Workers : StartPass(w, MaxPassesEach)
    \/ \E w \in Workers : Loop(w)
    \/ \E w \in Workers : Attempt(w, IOErrors, SomeOutcomes)
    \/ Tick({1, MAX_SEND_TIME})

Spec == Init /\ [][Next]_vars

(* Two processes race for one message; no lock ever grows old *)
NextFresh ==
    \/ \E w \in Workers : StartPass(w, MaxPasses)
    \/ \E w \in Workers : Loop(w)
    \/ \E w \in Workers : Stat(w, NoErrors)
    \/ \E w \in Workers : Touch(w, NoErrors)
    \/ \E w \in Workers : Link(w, NoErrors)
    \/ \E w \in Workers : Read(w, NoErrors)
    \/ \E w \in Workers : Send(w, MailerOutcomes)
    \/ \E w \in Workers : Quarantine(w, NoErrors)
    \/ \E w \in Workers : UnlinkMsg(w, NoErrors)
    \/ \E w \in Workers : UnlinkTmp(w, NoErrors)
    \/ Tick({1})

SpecFresh == Init /\ [][NextFresh]_vars

(* Two processes race for one message and every attempt is quick: the *)
(* clock moves only while no process is inside _send_message           *)
TickQuiet ==
    /\ \A w \in Workers : ~InAttempt(wk[w])
    /\ Tick({1, MAX_SEND_TIME})

NextReclaim ==
    \/ \E w \in Workers : StartPass(w, MaxPassesFew)
    \/ \E w \in Workers : Loop(w)
    \/ \E w \in Workers : Attempt(w, NoErrors, SomeOutcomes)
    \/ TickQuiet

SpecReclaim == Init /\ [][NextReclaim]_vars

(* One process at a time on one message: it may be killed at any step and *)
(* a new one started                                                      *)
NextSolo ==
    \/ StartPass("w1", MaxPasses)
    \/ Loop("w1")
    \/ Attempt("w1", NoErrors, MailerOutcomes)
    \/ Crash("w1")
    \/ Restart("w1")
    \/ Tick({1, MAX_SEND_TIME})

SpecSolo == Init /\ [][NextSolo]_vars

(* One process passing over two messages, with I/O errors and stop() *)
NextPass ==
    \/ StartPass("w1", MaxPassesFew)
    \/ Loop("w1")
    \/ Attempt("w1", IOErrors, SomeOutcomes)
    \/ Stop("w1")
    \/ Tick({1, MAX_SEND_TIME})

SpecPass == InitBoth /\ [][NextPass]_vars

(* Two processes on one message, with I/O errors; either may be killed at *)
(* any step and started again                                             *)
NextCrash ==
    \/ \E w \in Workers : StartPass(w, MaxPassesEach)
    \/ \E w \in Workers : Loop(w)
    \/ \E w \in Workers : Attempt(w, IOErrors, SomeOutcomes)
    \/ \E w \in Workers : Crash(w)
    \/ \E w \in Workers : Restart(w)
    \/ Tick({MAX_SEND_TIME})

SpecCrash == Init /\ [][NextCrash]_vars

(* One process running send_messages_daemon, directly or in a thread, over *)
(* two messages until stop() is called.  The thread is scheduled and every *)
(* call it makes comes back: each of its steps is taken if it stays due.   *)
Run(w) ==
    \/ DaemonTest(w, MaxRounds)
    \/ Loop(w)
    \/ Attempt(w, NoErrors, SomeOutcomes)
    \/ AfterPass(w)
    \/ Wake(w)

NextDaemon ==
    \/ CallDaemon("w1", Intervals)
    \/ CallThread("w1", Intervals)
    \/ Run("w1")
    \/ Stop("w1")
    \/ Tick({MAX_SEND_TIME})

SpecDaemon == InitBoth /\ [][NextDaemon]_vars /\ WF_vars(Run("w1"))

-----------------------------------------------------------------------------
(* The message codec on its own: an enqueuer writes the two header lines   *)
(* and the body, _parseMessage reads them back.                            *)

Addresses ==
    {<<>>, <<"a">>, <<"b", ",">>, <<" ", "c">>, <<"a", ",", " ", "b">>, <<"a", NL>>}
Bodies == {<<>>, <<"h">>, <<"h", NL, "i">>}
AddressLists == UNION {[1..n -> Addresses] : n \in 1..MaxAddrs}

(* the wire format: "X-Zope-From: " + fromAddress, "X-Zope-To: " + the *)
(* recipients joined by ", ", then the body, newline-separated         *)
Encode(fromaddr, toaddrs, body) ==
    FromMarker \o fromaddr \o <<NL>> \o ToMarker \o Join(toaddrs, CommaSpace)
    \o <<NL>> \o body

InitCodec ==
    /\ InitQueue({})
    /\ codec \in {[NoCodec EXCEPT !.stage = "triple", !.fromaddr = f,
                                   !.toaddrs = t, !.body = b] :
                      f \in Addresses, t \in AddressLists, b \in Bodies}

(* the enqueuer writes the message *)
Write ==
    /\ codec.stage = "triple"
    /\ codec' = [codec EXCEPT !.stage = "wire",
                              !.wire = Encode(codec.fromaddr, codec.toaddrs, codec.body)]
    /\ UNCHANGED <<cur, sending, rejected, mtime, now, ticks, wk, stopped, calls, passes,
                   answers>>

(* line 248: fromaddr, toaddrs, message = self._parseMessage(message) *)
Parse ==
    /\ codec.stage = "wire"
    /\ codec' = [codec EXCEPT !.stage = "parsed", !.parsed = parseMessage(codec.wire)]
    /\ UNCHANGED <<cur, sending, rejected, mtime, now, ticks, wk, stopped, calls, passes,
                   answers>>

NextCodec == Write \/ Parse

SpecCodec == InitCodec /\ [][NextCodec]_vars

-----------------------------------------------------------------------------
(* What the claims speak of *)

(* w is back from _send_message; its record still tells of that attempt *)
Returned(w) == wk[w].pc \in {"loop", "idle"} /\ wk[w].file # NoMsg

(* the transport raised an SMTP response error with a code in 500..599 *)
Permanent(e) == e.type = "smtp" /\ e.code \in 500..599

(* the transport raised anything else *)
Transient(e) == e.type = "other" \/ (e.type = "smtp" /\ e.code \notin 500..599)

Holders(m) == {w \in Workers : wk[w].file = m /\ HoldsLock(wk[w])}

-----------------------------------------------------------------------------
(* C1: mutual exclusion on the delivery lock: two processes are never both *)
(* between a successful lock link and the end of their attempt on the same *)
(* message, reclaimers of an old lock included.                            *)
MutualExclusion == \A m \in Msgs : Cardinality(Holders(m)) <= 1

-----------------------------------------------------------------------------
(* C2: fresh race: while no lock grows older than MAX_SEND_TIME, at most   *)
(* one process is past the lock link for a message, the transport is never *)
(* invoked twice for it, and once every process has finished an attempt on *)
(* it the transport has been invoked exactly once.                         *)
FreshRaceSendsOnce ==
    \A m \in Msgs :
        /\ Cardinality(Holders(m)) <= 1
        /\ calls[m] <= 1
        /\ (\A w \in Workers : Returned(w) /\ wk[w].file = m) => calls[m] = 1

(* both processes raced for m1: one sent it, the other found the lock *)
FreshRaceLost ==
    \E a, b \in Workers :
        /\ Returned(a) /\ wk[a].file = "m1" /\ wk[a].sent # NoCall
        /\ Returned(b) /\ wk[b].file = "m1" /\ wk[b].errno = "EEXIST"
        /\ wk[b].sent = NoCall

-----------------------------------------------------------------------------
(* C3: crash recovery: an attempt of the only live process that finds the  *)
(* lock older than MAX_SEND_TIME removes it, touches the message, links    *)
(* the lock again and invokes the transport, all within that attempt.      *)
StaleLockRecovered ==
    LET s == wk["w1"]
    IN  (Returned("w1") /\ s.age # NoAge /\ s.age > MAX_SEND_TIME)
        => /\ {"unlink_stale", "touch", "link"} \subseteq s.muts
           /\ s.acquired
           /\ s.sent # NoCall

(* the holder was killed between the lock link and the send (the transport *)
(* had never been invoked for m1); the next process recovered and sent it  *)
RecoveredAfterCrash ==
    LET s == wk["w1"]
    IN  /\ Returned("w1") /\ s.file = "m1"
        /\ s.age # NoAge /\ s.age > MAX_SEND_TIME
        /\ s.sent # NoCall /\ calls["m1"] = 1

-----------------------------------------------------------------------------
(* C4: permanent rejection: when the transport raised a 500..599 error,    *)
(* after _send_message returns the message is gone from the queue, the     *)
(* quarantine marker holds its content and no lock remains.                *)
PermanentRejectionRemoves ==
    LET s == wk["w1"]
    IN  (Returned("w1") /\ Permanent(s.exc))
        => /\ cur[s.file] = NoFile
           /\ rejected[s.file] = s.file
           /\ sending[s.file] = NoFile

-----------------------------------------------------------------------------
(* C5 as claimed: after a transient transport failure for M, the next pass *)
(* invokes the transport for M again.                                      *)
RetriedOnNextPass ==
    LET s == wk["w1"]
    IN  (Returned("w1") /\ Transient(s.prev)) => s.sent # NoCall

(* C5 as amended: after a transient transport failure M stays queued, and  *)
(* the next pass finds its lock: it invokes the transport again if and     *)
(* only if the lock is older than MAX_SEND_TIME, and otherwise leaves      *)
(* everything as it is.                                                    *)
RetriedOnceLockIsOld ==
    LET s == wk["w1"]
    IN  /\ (Returned("w1") /\ Transient(s.exc)) => cur[s.file] # NoFile
        /\ (Returned("w1") /\ Transient(s.prev))
           => /\ s.age # NoAge
              /\ (s.age > MAX_SEND_TIME <=> s.sent # NoCall)
              /\ (s.sent = NoCall => s.muts = {} /\ s.log = <<>>)

(* a pass after a transient failure found the lock old and sent again *)
RetriedAfterMaxSendTime ==
    LET s == wk["w1"]
    IN  /\ Returned("w1") /\ Transient(s.prev)
        /\ s.age # NoAge /\ s.age > MAX_SEND_TIME /\ s.sent # NoCall
        /\ calls[s.file] = 2

-----------------------------------------------------------------------------
(* C6: state left by a transient failure: one error record, a normal       *)
(* return, the message still queued, no quarantine marker made, and the    *)
(* lock this process linked still there.                                   *)
TransientFailureLeavesAll ==
    LET s == wk["w1"]
    IN  (Returned("w1") /\ Transient(s.exc))
        => /\ s.log = <<ErrorWhileSending(s)>>
           /\ s.log[1].level = "error"
           /\ cur[s.file] = s.file
           /\ sending[s.file] = s.file
           /\ "link_rejected" \notin s.muts
           /\ (rejected[s.file] # NoFile) = s.marker0
           /\ s.acquired
           /\ s.muts \cap {"unlink_msg", "unlink_tmp"} = {}

(* the transport answered 600, which is no permanent error *)
TransientFailureSeen ==
    LET s == wk["w1"]
    IN  /\ Returned("w1") /\ s.exc = SmtpAnswer(600)
        /\ sending[s.file] = s.file

-----------------------------------------------------------------------------
(* C7: clean delivery: for a message queued with no lock (and no marker),  *)
(* handled by a single process whose transport call returns, after         *)
(* _send_message the message is gone, no lock remains, no marker exists,   *)
(* the transport got what _parseMessage makes of the file, and one success *)
(* record was logged.                                                      *)
CleanDelivery ==
    LET s == wk["w1"]
    IN  (Returned("w1") /\ s.file = "m1" /\ s.age = NoAge /\ ~s.marker0
            /\ s.exc.type = "ok")
        => /\ cur["m1"] = NoFile
           /\ sending["m1"] = NoFile
           /\ rejected["m1"] = NoFile
           /\ s.sent = << <<"a">>, << <<"b">>, <<"c">> >>, <<"h", "i">> >>
           /\ s.log = << [level |-> "info", fmt |-> "Mail from %s to %s sent.",
                          args |-> << <<"a">>, <<"b", ",", " ", "c">> >>] >>

(* m1 was delivered at the first attempt *)
DeliveredCleanly ==
    LET s == wk["w1"]
    IN  /\ Returned("w1") /\ s.file = "m1" /\ s.age = NoAge /\ ~s.marker0
        /\ s.exc.type = "ok" /\ calls["m1"] = 1 /\ cur["m1"] = NoFile

-----------------------------------------------------------------------------
(* C8: failure isolation: no attempt ends anywhere but back in the loop of *)
(* send_messages, so a pass that was not stopped has handed every id the   *)
(* store yielded to _send_message, those after a failed one included.      *)
PassCoversAll ==
    LET s == wk["w1"]
    IN  (s.pc = "idle" /\ passes["w1"] > 0 /\ ~stopped["w1"]) => s.todo = <<>>

(* in one pass m1 failed and stayed queued, and m2 was attempted after it *)
PassWentOnAfterFailure ==
    LET s == wk["w1"]
    IN  /\ s.pc = "idle" /\ passes["w1"] = 1 /\ ~stopped["w1"] /\ s.todo = <<>>
        /\ s.file = "m2" /\ calls["m2"] = 1
        /\ calls["m1"] = 1 /\ cur["m1"] # NoFile

-----------------------------------------------------------------------------
(* C9: race-lost is never an error: an attempt that ends before the send   *)
(* because a name was already there or already gone logs nothing.          *)
RaceLostIsSilent ==
    \A w \in Workers :
        (Returned(w) /\ wk[w].exc = NoOutcome /\ wk[w].errno \in {"ENOENT", "EEXIST"})
        => wk[w].log = <<>>

-----------------------------------------------------------------------------
(* C10 as claimed: the process that does not get the lock changes nothing  *)
(* in the file system.                                                     *)
LoserMutatesNothing ==
    \A w \in Workers : (Returned(w) /\ ~wk[w].acquired) => wk[w].muts = {}

(* C10 as amended: the process that does not get the lock changes neither  *)
(* the message's existence or content nor the quarantine marker and makes  *)
(* no lock; it may have touched the message and removed a lock it found    *)
(* older than MAX_SEND_TIME.                                               *)
LoserOnlyTouchesOrReclaims ==
    \A w \in Workers :
        (Returned(w) /\ ~wk[w].acquired)
        => /\ wk[w].muts \subseteq {"touch", "unlink_stale"}
           /\ wk[w].sent = NoCall

(* a process touched the message and then found the other's lock *)
LoserTouched ==
    \E w \in Workers :
        /\ Returned(w) /\ ~wk[w].acquired /\ wk[w].errno = "EEXIST"
        /\ "touch" \in wk[w].muts

-----------------------------------------------------------------------------
(* C11: staleness threshold: an attempt removes the lock it stat'ed only   *)
(* when the age it observed is strictly greater than MAX_SEND_TIME, and    *)
(* then goes on (or returns because the lock was gone by the time of the   *)
(* unlink); at any age up to and including MAX_SEND_TIME it returns at     *)
(* once with no change to the file system, no transport call, no record.   *)
StalenessThreshold ==
    \A w \in Workers :
        LET s == wk[w]
        IN  (Returned(w) /\ s.age # NoAge)
            => /\ (s.age <= MAX_SEND_TIME)
                  => (s.muts = {} /\ s.sent = NoCall /\ s.log = <<>>
                      /\ s.errno = None)
               /\ (s.age > MAX_SEND_TIME)
                  => \/ "unlink_stale" \in s.muts
                     \/ (s.errno = "ENOENT" /\ s.muts = {})
               /\ ("unlink_stale" \in s.muts) => (s.age > MAX_SEND_TIME)

(* the lock was exactly MAX_SEND_TIME old: the attempt left it alone *)
LockAtThresholdKept ==
    \E w \in Workers :
        LET s == wk[w]
        IN  /\ Returned(w) /\ s.age = MAX_SEND_TIME /\ s.muts = {}
            /\ sending[s.file] # NoFile /\ now - mtime[sending[s.file]] = MAX_SEND_TIME

-----------------------------------------------------------------------------
(* C12: cooperative stop.  A step that sets the stop flag changes nothing  *)
(* else and the flag is never reset; once it is set no attempt, no pass    *)
(* and no sleep begins; an attempt in flight is left only by its own       *)
(* return; the loop of send_messages returns with the remaining ids        *)
(* untouched; and the daemon, once stopped, terminates.                    *)
StopStep ==
    LET s == wk["w1"]
        t == wk'["w1"]
    IN  /\ stopped["w1"] => stopped'["w1"]
        /\ (stopped' # stopped)
           => UNCHANGED <<codec, answers, cur, sending, rejected, mtime, now, ticks, wk, calls, passes>>
        /\ (stopped["w1"] /\ ~InAttempt(s)) => ~InAttempt(t)
        /\ (InAttempt(s) /\ t # s) => (InAttempt(t) \/ t.pc = "loop")
        /\ (stopped["w1"] /\ s.pc = "loop" /\ t # s)
           => (t.pc = "idle" /\ t.todo = s.todo)
        /\ (stopped["w1"] /\ s.daemon # "pass") => t.daemon # "pass"
        /\ (stopped["w1"] /\ s.daemon # "sleep") => t.daemon # "sleep"

StopIsCooperative ==
    /\ [][StopStep]_vars
    /\ (stopped["w1"] /\ wk["w1"].daemon # "off") ~> (wk["w1"].daemon = "done")

(* stopped in its first pass: the daemon has ended after sending one       *)
(* message, the other id was never handed to _send_message, and it never   *)
(* slept                                                                   *)
DaemonStoppedEarly ==
    LET s == wk["w1"]
    IN  /\ s.daemon = "done" /\ stopped["w1"] /\ passes["w1"] = 1
        /\ s.sent # NoCall /\ s.todo # <<>> /\ calls[Head(s.todo)] = 0
        /\ s.slept = NotPassed

-----------------------------------------------------------------------------
(* C13: idempotent finalize: an attempt whose transport call returned, or  *)
(* raised a 500..599 error and whose marker was linked, and which then     *)
(* found the message or the lock already removed by another process, still *)
(* ends with the success record, logs no 'Error while sending' record, and *)
(* leaves neither the message nor a lock.                                  *)
ReachedFinalize(s) ==
    s.sent # NoCall
    /\ (s.exc.type = "ok" \/ (Permanent(s.exc) /\ "link_rejected" \in s.muts))

FinalizeIsIdempotent ==
    \A w \in Workers :
        LET s == wk[w]
        IN  (Returned(w) /\ ReachedFinalize(s)
                /\ ~({"unlink_msg", "unlink_tmp"} \subseteq s.muts))
            => /\ s.log # <<>> /\ s.log[Len(s.log)] = InfoSent(s)
               /\ \A i \in 1..Len(s.log) : s.log[i] # ErrorWhileSending(s)
               /\ cur[s.file] = NoFile
               /\ sending[s.file] = NoFile

(* two processes finalized the same message: one of them found the message *)
(* file already unlinked by the other and still finished                   *)
FinalizedWithoutMessage ==
    \E w \in Workers :
        LET s == wk[w]
        IN  /\ Returned(w) /\ ReachedFinalize(s)
            /\ "unlink_msg" \notin s.muts
            /\ cur[s.file] = NoFile /\ sending[s.file] = NoFile

-----------------------------------------------------------------------------
(* C14: poll interval: whichever entry point started the loop, every sleep *)
(* between passes lasts the interval the caller passed, or the default of  *)
(* 3 when none was passed.                                                 *)
SleepsAsAsked ==
    LET s == wk["w1"]
    IN  (s.slept # NotPassed)
        => s.slept = (IF s.asked = NotPassed THEN DefaultInterval ELSE s.asked)

-----------------------------------------------------------------------------
(* C15 as claimed: parsing what was written gives back the sender, the     *)
(* recipients and the body, whatever the addresses are.                    *)
RoundTrip ==
    (codec.stage = "parsed")
    => codec.parsed = [fromaddr |-> codec.fromaddr, toaddrs |-> codec.toaddrs,
                       rest |-> codec.body]

(* C15 as amended: parsing what was written gives back the sender, the     *)
(* recipients and the body when the sender holds no newline and no         *)
(* recipient holds a newline or a comma followed by a space.               *)
Plain(a) == Find(a, <<NL>>, 1) = 0
OneAddress(a) == Plain(a) /\ Find(a, CommaSpace, 1) = 0

RoundTripOfPlainAddresses ==
    (codec.stage = "parsed" /\ Plain(codec.fromaddr)
        /\ \A i \in 1..Len(codec.toaddrs) : OneAddress(codec.toaddrs[i]))
    => codec.parsed = [fromaddr |-> codec.fromaddr, toaddrs |-> codec.toaddrs,
                       rest |-> codec.body]

(* two recipients, one ending in a comma and one starting with a space,    *)
(* and a body of two lines, came back as they were written                 *)
RoundTripSeen ==
    /\ codec.stage = "parsed"
    /\ codec.toaddrs = << <<"b", ",">>, <<" ", "c">> >>
    /\ codec.body = <<"h", NL, "i">>
    /\ codec.parsed.toaddrs = codec.toaddrs /\ codec.parsed.rest = codec.body

-----------------------------------------------------------------------------
(* C16: no message loss: whenever the message file is gone, the transport  *)
(* has returned for it at least once or its quarantine marker is there,    *)
(* holding its content; with two processes, I/O errors and kills.          *)
NoMessageLoss ==
    (cur["m1"] = NoFile)
    => \/ \E e \in answers["m1"] : e.type = "ok"
       \/ rejected["m1"] = "m1"

(* a process was killed, and the message left the queue by quarantine *)
(* without ever having been accepted by the transport                 *)
QuarantinedDespiteCrash ==
    /\ cur["m1"] = NoFile /\ rejected["m1"] = "m1"
    /\ \A e \in answers["m1"] : e.type # "ok"
    /\ \E w \in Workers : wk[w].pc = "dead" /\ wk[w].acquired

-----------------------------------------------------------------------------
(* C17: only stale locks are reclaimed: whenever the unlink of the reclaim *)
(* step removes a lock, that lock is older than MAX_SEND_TIME at that      *)
(* moment.                                                                 *)
ReclaimStep ==
    \A w \in Workers :
        LET m == wk[w].file
        IN  (wk[w].pc = "unlink_stale" /\ wk'[w].pc = "touch"
                /\ sending[m] # NoFile /\ sending'[m] = NoFile)
            => now - mtime[sending[m]] > MAX_SEND_TIME

OnlyStaleLocksReclaimed == [][ReclaimStep]_vars

-----------------------------------------------------------------------------
(* C18: success log means success: an attempt has logged the record        *)
(* 'Mail from ... sent.' only if its transport call returned without       *)
(* raising.                                                                *)
SentRecordMeansSent ==
    \A w \in Workers :
        LET s == wk[w]
        IN  (\E i \in 1..Len(s.log) : s.log[i] = InfoSent(s)) => s.exc.type = "ok"

-----------------------------------------------------------------------------
(* C19: unexpected I/O failures are always reported: once a system call    *)
(* before the send has failed with an error that is no lost race, the      *)
(* attempt is over and has logged exactly one record, at error level.      *)
UnexpectedFailureReported ==
    \A w \in Workers :
        LET s == wk[w]
        IN  (s.errno \in IOErrors /\ s.sent = NoCall)
            => /\ ~InAttempt(s)
               /\ s.log = <<ErrorWhileSending(s)>>

-----------------------------------------------------------------------------
(* C20: quarantine lifecycle: a quarantine marker exists only if some      *)
(* transport call for the message raised an SMTP response error with a     *)
(* code in 500..599, and no step removes or replaces a marker once made.   *)
MarkerKept ==
    \A m \in Msgs : (rejected[m] # NoFile) => (rejected'[m] = rejected[m])

QuarantineLifecycle ==
    /\ [](\A m \in Msgs :
            (rejected[m] # NoFile)
            => \E e \in answers[m] : e.type = "smtp" /\ e.code \in 500..599)
    /\ [][MarkerKept]_vars

(* an attempt began with the marker already there (its maker was killed   *)
(* before the unlinks), delivered the message, and the marker is still    *)
(* there                                                                  *)
MarkerOutlivesDelivery ==
    LET s == wk["w1"]
    IN  /\ Returned("w1") /\ s.marker0 /\ s.exc.type = "ok"
        /\ cur[s.file] = NoFile /\ rejected[s.file] = s.file

====
